---- MODULE Spec2Model ----
(***************************************************************************)
(* Model of the three OpenMP mini-labs of labs/openmp/cpp:                 *)
(*   omp_00_warmup.cpp            the probe run ("warmup")                 *)
(*   omp_01_amdahl.cpp            the Amdahl run ("amdahl")                *)
(*   omp_02_mutex_bottleneck.cpp  the contention run ("mutex")             *)
(* One behaviour is one run of one program with one thread count T.  The   *)
(* initial thread executes main (position mpc); inside a parallel region   *)
(* each of the T workers has its own position pc[w].  Time is a logical    *)
(* clock: every thread carries the earliest time at which it can be where  *)
(* it is; a fork hands the master's clock to the workers, a barrier and a  *)
(* join take the maximum, a critical section starts no earlier than the    *)
(* previous holder left it.                                                *)
(***************************************************************************)
EXTENDS Integers, Sequences, FiniteSets, TLC

\* ------------------------------------------------------------- bounds
\* largest thread count (OMP_NUM_THREADS) explored
MaxT == 3
\* largest iteration count of a work-shared loop (iters, Npar) explored
MaxN == 4
\* largest iteration count of the serial loop (Nserial) explored
MaxSerial == 2

\* ------------------------------------------------- program constants
\* omp_02_mutex_bottleneck.cpp:22  const double parallel_ms = 2.0
parallel_ms == 2
\* omp_02_mutex_bottleneck.cpp:23  const double serial_ms = 5.0
serial_ms == 5

Programs == {"warmup", "amdahl", "mutex"}

VARIABLES
    prog,          \* which of the three programs runs
    T,             \* number of threads the runtime gives every region
    iters,         \* mutex: const int iters (scaled down)
    Npar,          \* amdahl: const int Npar (scaled down)
    Nserial,       \* amdahl: const int Nserial (scaled down)
    mpc,           \* position of main (the initial thread)
    pc,            \* pc[w]: position of worker w inside the region
    nt,            \* main's int nt
    tid,           \* warmup: tid[w] is worker w's local int tid
    nt_local,      \* warmup: nt_local[w] is worker w's local int nt
    singleTaken,   \* the single construct of the region has been claimed
    ntWrites,      \* sequence of workers that wrote nt (history)
    i,             \* i[w]: loop variable of worker w
    hi,            \* hi[w]: end of worker w's subrange
    hits,          \* hits[k]: workers that executed the loop body for index k
    s,             \* parallel_work: the shared reduction variable s
    priv,          \* parallel_work: priv[w] is worker w's private copy of s
    redLock,       \* set of workers holding the runtime's reduction lock
    combined,      \* workers whose private copy has been added to s, in the
                   \* order of the additions (history)
    ss,            \* serial_work: volatile double s
    si,            \* serial_work: loop variable i
    serLog,        \* serial_work: the indices whose term was added to s, in
                   \* the order of the additions (history)
    a,             \* amdahl main: const double a
    b,             \* amdahl main: const double b
    slot,          \* set of workers inside the unnamed critical section
    slotFree,      \* logical time at which the critical section was last left
    acquired,      \* number of times the critical section was entered (history)
    idleWait,      \* the critical section has been idle while a worker was
                   \* waiting to enter it (history)
    clk,           \* clk[w]: logical clock of worker w
    mclk,          \* logical clock of main
    t0,            \* main's time stamp t0 (-1 before it is taken)
    t1,            \* main's time stamp t1 (-1 before it is taken)
    regions,       \* number of parallel regions opened so far (history)
    out,           \* lines written to standard output, in order
    exitCode       \* main's return value (-1 before main returns)

vars == <<prog, T, iters, Npar, Nserial, mpc, pc, nt, tid, nt_local,
          singleTaken, ntWrites,
          i, hi, hits, s, priv, redLock, combined, ss, si, serLog, a, b,
          slot, slotFree, acquired, idleWait, clk, mclk, t0, t1, regions, out,
          exitCode>>

Workers == 0 .. (T - 1)

\* iteration count of the program's work-shared loop
LoopN == IF prog = "mutex" THEN iters ELSE Npar

Max(S) == CHOOSE x \in S : \A y \in S : y <= x

\* ----------------------------------------------------- pure functions
\* std::sin(i * 1e-6) in fixed point: sin x ~ x, one unit is 1e-6
SinTerm(k) == k

\* std::cos(i * 1e-6) in fixed point: cos x ~ 1 - x^2/2, one unit is 5e-13,
\* the leading 1 scaled to 1000 to stay inside TLC's integers
CosTerm(k) == 1000 - k * k

\* variant: the identity of the initial thread, whoever asks
omp_get_thread_num_Master(w) == 0

\* omp_get_thread_num() called by worker w
omp_get_thread_num(w) == w

\* omp_get_num_threads() inside a region of T threads
omp_get_num_threads == T

\* variant: chunk starts that ignore the remainder n % nthreads
StaticLo_NoRemainder(n, nthreads, w) == (n \div nthreads) * w

\* schedule(static) without a chunk size, as libgomp (the g++ -fopenmp build)
\* computes it: q = n / nthreads, t = n % nthreads; the first t threads get
\* q + 1 iterations, the others q
StaticLo(n, nthreads, w) ==
    LET q == n \div nthreads
        t == n % nthreads
    IN  IF w < t THEN (q + 1) * w ELSE q * w + t

\* variant: every chunk has n / nthreads iterations, the remainder is lost
StaticHi_DropRemainder(n, nthreads, w) ==
    StaticLo(n, nthreads, w) + (n \div nthreads)

\* variant: the whole remainder goes to thread 0
StaticHi_RemainderToFirst(n, nthreads, w) ==
    StaticLo(n, nthreads, w) + (n \div nthreads)
       + (IF w = 0 THEN n % nthreads ELSE 0)

\* schedule(static): the end (exclusive) of thread w's chunk
StaticHi(n, nthreads, w) ==
    LET q == n \div nthreads
        t == n % nthreads
    IN  StaticLo(n, nthreads, w) + (IF w < t THEN q + 1 ELSE q)

\* ---------------------------------------------------------------- Init
Init ==
    /\ prog \in Programs
    /\ T \in 1 .. MaxT
    /\ iters \in (IF prog = "mutex" THEN 0 .. MaxN ELSE {0})
    /\ Npar \in (IF prog = "amdahl" THEN 0 .. MaxN ELSE {0})
    /\ Nserial \in (IF prog = "amdahl" THEN 0 .. MaxSerial ELSE {0})
    /\ mpc = (IF prog = "mutex" THEN "t0" ELSE "fork")
    /\ pc = [w \in Workers |-> "idle"]
    /\ nt = 0
    /\ tid = [w \in Workers |-> 0]
    /\ nt_local = [w \in Workers |-> 0]
    /\ singleTaken = FALSE
    /\ ntWrites = << >>
    /\ i = [w \in Workers |-> 0]
    /\ hi = [w \in Workers |-> 0]
    /\ hits = [k \in 0 .. (LoopN - 1) |-> << >>]
    /\ s = 0
    /\ priv = [w \in Workers |-> 0]
    /\ redLock = {}
    /\ combined = << >>
    /\ ss = 0
    /\ si = 0
    /\ serLog = << >>
    /\ a = 0
    /\ b = 0
    /\ slot = {}
    /\ slotFree = 0
    /\ acquired = 0
    /\ idleWait = FALSE
    /\ clk = [w \in Workers |-> 0]
    /\ mclk = 0
    /\ t0 = -1
    /\ t1 = -1
    /\ regions = 0
    /\ out = << >>
    /\ exitCode = -1

\* ------------------------------------------------------ variable groups
cfgVars    == <<prog, T, iters, Npar, Nserial>>
probeVars  == <<tid, nt_local>>
singleVars == <<nt, singleTaken, ntWrites>>
loopVars   == <<i, hi, hits>>
redVars    == <<s, priv, redLock, combined>>
serVars    == <<ss, si, serLog, a>>
critVars   == <<slot, slotFree, acquired, idleWait>>
stampVars  == <<t0, t1>>

AllAt(label) == \A w \in Workers : pc[w] = label

\* ------------------------------------------------- main: the runner
\* #pragma omp parallel: the T workers of the region start with the
\* master's clock.  warmup:15, amdahl:43 (the region that reads the thread
\* count), mutex:28.
ForkRegion ==
    /\ mpc = "fork"
    /\ pc' = [w \in Workers |->
                 IF prog = "warmup" THEN "hello_ids" ELSE "single"]
    /\ clk' = [w \in Workers |-> mclk]
    /\ singleTaken' = FALSE
    /\ regions' = regions + 1
    /\ mpc' = "join"
    /\ UNCHANGED <<cfgVars, probeVars, nt, ntWrites, loopVars, redVars,
                   serVars, b, critVars, mclk, stampVars, out, exitCode>>

\* variant: main goes on as soon as one worker has reached the barrier
JoinRegion_FirstArrival ==
    /\ mpc = "join"
    /\ \E w \in Workers : pc[w] = "end_barrier"
    /\ pc' = [w \in Workers |-> IF pc[w] = "end_barrier" THEN "idle" ELSE pc[w]]
    /\ mclk' = Max({clk[w] : w \in {u \in Workers : pc[u] = "end_barrier"}})
    /\ mpc' = (IF prog = "warmup" THEN "ret"
               ELSE IF prog = "amdahl" THEN "t0" ELSE "t1")
    /\ UNCHANGED <<cfgVars, probeVars, singleVars, loopVars, redVars, serVars,
                   b, critVars, clk, stampVars, regions, out, exitCode>>

\* the implicit barrier that ends the parallel region: main goes on only
\* when every worker has reached it
JoinRegion ==
    /\ mpc = "join"
    /\ AllAt("end_barrier")
    /\ pc' = [w \in Workers |-> "idle"]
    /\ mclk' = Max({clk[w] : w \in Workers})
    /\ mpc' = (IF prog = "warmup" THEN "ret"
               ELSE IF prog = "amdahl" THEN "t0" ELSE "t1")
    /\ UNCHANGED <<cfgVars, probeVars, singleVars, loopVars, redVars, serVars,
                   b, critVars, clk, stampVars, regions, out, exitCode>>

\* auto t0 = high_resolution_clock::now()
TakeT0 ==
    /\ mpc = "t0"
    /\ t0' = mclk
    /\ mpc' = (IF prog = "amdahl" THEN "serial" ELSE "fork")
    /\ UNCHANGED <<cfgVars, pc, probeVars, singleVars, loopVars, redVars,
                   serVars, b, critVars, clk, mclk, t1, regions, out, exitCode>>

\* auto t1 = high_resolution_clock::now()
TakeT1 ==
    /\ mpc = "t1"
    /\ t1' = mclk
    /\ mpc' = "report"
    /\ UNCHANGED <<cfgVars, pc, probeVars, singleVars, loopVars, redVars,
                   serVars, b, critVars, clk, mclk, t0, regions, out, exitCode>>

\* const double sec = duration<double>(t1 - t0).count()
sec == t1 - t0

\* std::cout << "threads=" << nt << ... << "  wall=" << sec << "s\n"
Report ==
    /\ mpc = "report"
    /\ out' = Append(out, IF prog = "amdahl"
                          THEN <<nt, a, b, sec>>
                          ELSE <<nt, iters, parallel_ms, serial_ms, sec>>)
    /\ mpc' = "ret"
    /\ UNCHANGED <<cfgVars, pc, probeVars, singleVars, loopVars, redVars,
                   serVars, b, critVars, clk, mclk, stampVars, regions,
                   exitCode>>

\* return 0
Return ==
    /\ mpc = "ret"
    /\ exitCode' = 0
    /\ mpc' = "done"
    /\ UNCHANGED <<cfgVars, pc, probeVars, singleVars, loopVars, redVars,
                   serVars, b, critVars, clk, mclk, stampVars, regions, out>>

\* ------------------------------------------- warmup: the probe region
\* int tid = omp_get_thread_num(); int nt = omp_get_num_threads();
ReadIds(w) ==
    /\ pc[w] = "hello_ids"
    /\ tid' = [tid EXCEPT ![w] = omp_get_thread_num(w)]
    /\ nt_local' = [nt_local EXCEPT ![w] = omp_get_num_threads]
    /\ pc' = [pc EXCEPT ![w] = "hello_wait"]
    /\ UNCHANGED <<cfgVars, mpc, singleVars, loopVars, redVars, serVars, b,
                   critVars, clk, mclk, stampVars, regions, out, exitCode>>

\* variant: entry without mutual exclusion
HelloEnterCritical_NoExclusion(w) ==
    /\ pc[w] = "hello_wait"
    /\ slot' = slot \cup {w}
    /\ acquired' = acquired + 1
    /\ pc' = [pc EXCEPT ![w] = "hello_print"]
    /\ UNCHANGED <<cfgVars, mpc, probeVars, singleVars, loopVars, redVars,
                   serVars, b, slotFree, idleWait, clk, mclk, stampVars, regions,
                   out,
                   exitCode>>

\* #pragma omp critical: entry, blocks while another worker is inside
HelloEnterCritical(w) ==
    /\ pc[w] = "hello_wait"
    /\ slot = {}
    /\ slot' = {w}
    /\ acquired' = acquired + 1
    /\ pc' = [pc EXCEPT ![w] = "hello_print"]
    /\ UNCHANGED <<cfgVars, mpc, probeVars, singleVars, loopVars, redVars,
                   serVars, b, slotFree, idleWait, clk, mclk, stampVars, regions,
                   out,
                   exitCode>>

\* std::printf("Hello from thread %d of %d\n", tid, nt); end of critical
HelloPrint(w) ==
    /\ pc[w] = "hello_print"
    /\ out' = Append(out, <<tid[w], nt_local[w]>>)
    /\ slot' = slot \ {w}
    /\ pc' = [pc EXCEPT ![w] = "end_barrier"]
    /\ UNCHANGED <<cfgVars, mpc, probeVars, singleVars, loopVars, redVars,
                   serVars, b, slotFree, acquired, idleWait, clk, mclk, stampVars,
                   regions, exitCode>>

\* ------------------------------ amdahl and mutex: #pragma omp single
\* variant: without the single construct every worker executes the block
SingleArrive_Everyone(w) ==
    /\ pc[w] = "single"
    /\ pc' = [pc EXCEPT ![w] = "single_body"]
    /\ singleTaken' = TRUE
    /\ UNCHANGED <<cfgVars, mpc, probeVars, nt, ntWrites, loopVars, redVars,
                   serVars, b, critVars, clk, mclk, stampVars, regions, out,
                   exitCode>>

\* the first worker to arrive executes the block, the others skip it
SingleArrive(w) ==
    /\ pc[w] = "single"
    /\ IF singleTaken
       THEN /\ pc' = [pc EXCEPT ![w] = "single_barrier"]
            /\ UNCHANGED singleTaken
       ELSE /\ pc' = [pc EXCEPT ![w] = "single_body"]
            /\ singleTaken' = TRUE
    /\ UNCHANGED <<cfgVars, mpc, probeVars, nt, ntWrites, loopVars, redVars,
                   serVars, b, critVars, clk, mclk, stampVars, regions, out,
                   exitCode>>

\* nt = omp_get_num_threads()
SingleBody(w) ==
    /\ pc[w] = "single_body"
    /\ nt' = omp_get_num_threads
    /\ ntWrites' = Append(ntWrites, w)
    /\ pc' = [pc EXCEPT ![w] = "single_barrier"]
    /\ UNCHANGED <<cfgVars, mpc, probeVars, singleTaken, loopVars, redVars,
                   serVars, b, critVars, clk, mclk, stampVars, regions, out,
                   exitCode>>

\* the implicit barrier at the end of the single construct.  In amdahl the
\* region ends there; in mutex the workers go on to the work-shared loop,
\* each with its static subrange.
SingleBarrier ==
    /\ AllAt("single_barrier")
    /\ clk' = [w \in Workers |-> Max({clk[u] : u \in Workers})]
    /\ IF prog = "mutex"
       THEN /\ pc' = [w \in Workers |-> "mx_loop"]
            /\ i' = [w \in Workers |-> StaticLo(iters, T, w)]
            /\ hi' = [w \in Workers |-> StaticHi(iters, T, w)]
       ELSE /\ pc' = [w \in Workers |-> "end_barrier"]
            /\ UNCHANGED <<i, hi>>
    /\ UNCHANGED <<cfgVars, mpc, probeVars, singleVars, hits, redVars, serVars,
                   b, critVars, mclk, stampVars, regions, out, exitCode>>


\* --------------------------- mutex: #pragma omp for schedule(static)
\* for (int i = lo; i < hi; i++): the loop test of worker w
LoopTest(w) ==
    /\ pc[w] = "mx_loop"
    /\ pc' = [pc EXCEPT ![w] = IF i[w] < hi[w] THEN "mx_par" ELSE "for_barrier"]
    /\ UNCHANGED <<cfgVars, mpc, probeVars, singleVars, loopVars, redVars,
                   serVars, b, critVars, clk, mclk, stampVars, regions, out,
                   exitCode>>

\* variant: the parallel phase waits until nobody is in the critical section
ParallelPhase_UnderLock(w) ==
    /\ pc[w] = "mx_par"
    /\ slot = {}
    /\ clk' = [clk EXCEPT ![w] = clk[w] + parallel_ms]
    /\ pc' = [pc EXCEPT ![w] = "mx_wait"]
    /\ UNCHANGED <<cfgVars, mpc, probeVars, singleVars, loopVars, redVars,
                   serVars, b, critVars, mclk, stampVars, regions, out,
                   exitCode>>

\* the parallel phase: sleep_for(parallel_ms), no synchronization
ParallelPhase(w) ==
    /\ pc[w] = "mx_par"
    /\ clk' = [clk EXCEPT ![w] = clk[w] + parallel_ms]
    /\ pc' = [pc EXCEPT ![w] = "mx_wait"]
    /\ UNCHANGED <<cfgVars, mpc, probeVars, singleVars, loopVars, redVars,
                   serVars, b, critVars, mclk, stampVars, regions, out,
                   exitCode>>

\* worker u waits at the entry of the critical section at some time before
\* tau: it is there with an earlier clock, or it is on its way through the
\* parallel phase and arrives before tau
WaitsBefore(u, tau) ==
    \/ pc[u] = "mx_wait" /\ clk[u] < tau
    \/ pc[u] = "mx_par" /\ clk[u] + parallel_ms < tau
    \/ pc[u] = "mx_loop" /\ i[u] < hi[u] /\ clk[u] + parallel_ms < tau

\* variant: entry without mutual exclusion
EnterCritical_NoExclusion(w) ==
    /\ pc[w] = "mx_wait"
    /\ slot' = slot \cup {w}
    /\ acquired' = acquired + 1
    /\ pc' = [pc EXCEPT ![w] = "mx_crit"]
    /\ UNCHANGED <<cfgVars, mpc, probeVars, singleVars, loopVars, redVars,
                   serVars, b, slotFree, idleWait, clk, mclk, stampVars, regions,
                   out,
                   exitCode>>

\* #pragma omp critical: entry.  The worker blocks while another worker is
\* inside; it gets in no earlier than the previous holder got out.  The
\* critical section was idle from slotFree to the time of this entry: that
\* is recorded when another worker was waiting for it in that interval.
EnterCritical(w) ==
    /\ pc[w] = "mx_wait"
    /\ slot = {}
    /\ slot' = {w}
    /\ acquired' = acquired + 1
    /\ clk' = [clk EXCEPT ![w] = Max({clk[w], slotFree})]
    /\ idleWait' = (idleWait \/ (/\ slotFree < clk[w]
                                  /\ \E u \in Workers \ {w} :
                                        WaitsBefore(u, clk[w])))
    /\ pc' = [pc EXCEPT ![w] = "mx_crit"]
    /\ UNCHANGED <<cfgVars, mpc, probeVars, singleVars, loopVars, redVars,
                   serVars, b, slotFree, mclk, stampVars, regions, out,
                   exitCode>>

\* variant: the critical section is never left
SerialPhase_NoRelease(w) ==
    /\ pc[w] = "mx_crit"
    /\ clk' = [clk EXCEPT ![w] = clk[w] + serial_ms]
    /\ slotFree' = clk[w] + serial_ms
    /\ hits' = [hits EXCEPT ![i[w]] = Append(hits[i[w]], w)]
    /\ i' = [i EXCEPT ![w] = i[w] + 1]
    /\ pc' = [pc EXCEPT ![w] = "mx_loop"]
    /\ UNCHANGED <<cfgVars, mpc, probeVars, singleVars, hi, redVars, serVars,
                   b, slot, acquired, idleWait, mclk, stampVars, regions, out,
                   exitCode>>

\* the serialized phase: sleep_for(serial_ms), then the end of the critical
\* block and of the loop body (i++)
SerialPhase(w) ==
    /\ pc[w] = "mx_crit"
    /\ clk' = [clk EXCEPT ![w] = clk[w] + serial_ms]
    /\ slotFree' = clk[w] + serial_ms
    /\ slot' = slot \ {w}
    /\ hits' = [hits EXCEPT ![i[w]] = Append(hits[i[w]], w)]
    /\ i' = [i EXCEPT ![w] = i[w] + 1]
    /\ pc' = [pc EXCEPT ![w] = "mx_loop"]
    /\ UNCHANGED <<cfgVars, mpc, probeVars, singleVars, hi, redVars, serVars,
                   b, acquired, idleWait, mclk, stampVars, regions, out, exitCode>>

\* the implicit barrier at the end of the work-shared loop
ForBarrier ==
    /\ AllAt("for_barrier")
    /\ clk' = [w \in Workers |-> Max({clk[u] : u \in Workers})]
    /\ pc' = [w \in Workers |-> "end_barrier"]
    /\ UNCHANGED <<cfgVars, mpc, probeVars, singleVars, loopVars, redVars,
                   serVars, b, critVars, mclk, stampVars, regions, out,
                   exitCode>>

\* ------------------------------------------------ amdahl: serial_work
\* variant: the loop runs from n - 1 down to 0
SerialStep_Descending ==
    /\ mpc = "serial"
    /\ si < Nserial
    /\ ss' = ss + SinTerm(Nserial - 1 - si)
    /\ serLog' = Append(serLog, Nserial - 1 - si)
    /\ si' = si + 1
    /\ mclk' = mclk + 1
    /\ UNCHANGED <<cfgVars, mpc, pc, probeVars, singleVars, loopVars, redVars,
                   a, b, critVars, clk, stampVars, regions, out, exitCode>>

\* variant: the loop body is executed by every thread of a team, each adding
\* its term to the one s
SerialStep_EveryThread ==
    /\ mpc = "serial"
    /\ si < Nserial
    /\ ss' = ss + T * SinTerm(si)
    /\ serLog' = Append(serLog, si)
    /\ si' = si + 1
    /\ mclk' = mclk + 1
    /\ UNCHANGED <<cfgVars, mpc, pc, probeVars, singleVars, loopVars, redVars,
                   a, b, critVars, clk, stampVars, regions, out, exitCode>>

\* for (int i = 0; i < n; i++) s += std::sin(i * 1e-6), on the initial
\* thread; one time unit per iteration
SerialStep ==
    /\ mpc = "serial"
    /\ si < Nserial
    /\ ss' = ss + SinTerm(si)
    /\ serLog' = Append(serLog, si)
    /\ si' = si + 1
    /\ mclk' = mclk + 1
    /\ UNCHANGED <<cfgVars, mpc, pc, probeVars, singleVars, loopVars, redVars,
                   a, b, critVars, clk, stampVars, regions, out, exitCode>>

\* return (double)s;  const double a = serial_work(Nserial)
SerialReturn ==
    /\ mpc = "serial"
    /\ si >= Nserial
    /\ a' = ss
    /\ mpc' = "pw_fork"
    /\ UNCHANGED <<cfgVars, pc, probeVars, singleVars, loopVars, redVars, ss,
                   si, serLog, b, critVars, clk, mclk, stampVars, regions, out,
                   exitCode>>

\* ---------------------------------------------- amdahl: parallel_work
\* double s = 0.0; #pragma omp parallel for reduction(+:s) schedule(static):
\* every worker gets a private copy of s initialised to 0 and its subrange
ForkParallelWork ==
    /\ mpc = "pw_fork"
    /\ s' = 0
    /\ priv' = [w \in Workers |-> 0]
    /\ combined' = << >>
    /\ i' = [w \in Workers |-> StaticLo(Npar, T, w)]
    /\ hi' = [w \in Workers |-> StaticHi(Npar, T, w)]
    /\ pc' = [w \in Workers |-> "pw_loop"]
    /\ clk' = [w \in Workers |-> mclk]
    /\ regions' = regions + 1
    /\ mpc' = "pw_join"
    /\ UNCHANGED <<cfgVars, probeVars, singleVars, hits, redLock, serVars, b,
                   critVars, mclk, stampVars, out, exitCode>>

\* for (int i = lo; i < hi; i++) s += std::cos(i * 1e-6), on the private
\* copy; one time unit per iteration
ParallelWorkLoop(w) ==
    /\ pc[w] = "pw_loop"
    /\ IF i[w] < hi[w]
       THEN /\ priv' = [priv EXCEPT ![w] = priv[w] + CosTerm(i[w])]
            /\ hits' = [hits EXCEPT ![i[w]] = Append(hits[i[w]], w)]
            /\ i' = [i EXCEPT ![w] = i[w] + 1]
            /\ clk' = [clk EXCEPT ![w] = clk[w] + 1]
            /\ UNCHANGED pc
       ELSE /\ pc' = [pc EXCEPT ![w] = "pw_reduce"]
            /\ UNCHANGED <<priv, hits, i, clk>>
    /\ UNCHANGED <<cfgVars, mpc, probeVars, singleVars, hi, s, redLock,
                   combined, serVars, b, critVars, mclk, stampVars, regions,
                   out, exitCode>>

\* variant: the combination is not synchronized
AcquireReduction_NoLock(w) ==
    /\ pc[w] = "pw_reduce"
    /\ redLock' = redLock \cup {w}
    /\ pc' = [pc EXCEPT ![w] = "pw_add"]
    /\ UNCHANGED <<cfgVars, mpc, probeVars, singleVars, loopVars, s, priv,
                   combined, serVars, b, critVars, clk, mclk, stampVars,
                   regions, out, exitCode>>

\* the reduction: a worker that has left the loop takes the runtime's lock
AcquireReduction(w) ==
    /\ pc[w] = "pw_reduce"
    /\ redLock = {}
    /\ redLock' = {w}
    /\ pc' = [pc EXCEPT ![w] = "pw_add"]
    /\ UNCHANGED <<cfgVars, mpc, probeVars, singleVars, loopVars, s, priv,
                   combined, serVars, b, critVars, clk, mclk, stampVars,
                   regions, out, exitCode>>

\* variant: the private copy overwrites s instead of being added to it
CombinePartial_Overwrite(w) ==
    /\ pc[w] = "pw_add"
    /\ s' = priv[w]
    /\ combined' = Append(combined, w)
    /\ redLock' = redLock \ {w}
    /\ pc' = [pc EXCEPT ![w] = "end_barrier"]
    /\ UNCHANGED <<cfgVars, mpc, probeVars, singleVars, loopVars, priv,
                   serVars, b, critVars, clk, mclk, stampVars, regions, out,
                   exitCode>>

\* ... and adds its private copy to the original s, then releases the lock
\* and waits at the barrier that ends the region
CombinePartial(w) ==
    /\ pc[w] = "pw_add"
    /\ s' = s + priv[w]
    /\ combined' = Append(combined, w)
    /\ redLock' = redLock \ {w}
    /\ pc' = [pc EXCEPT ![w] = "end_barrier"]
    /\ UNCHANGED <<cfgVars, mpc, probeVars, singleVars, loopVars, priv,
                   serVars, b, critVars, clk, mclk, stampVars, regions, out,
                   exitCode>>

\* variant: parallel_work returns as soon as one worker has reached the end
JoinParallelWork_FirstArrival ==
    /\ mpc = "pw_join"
    /\ \E w \in Workers : pc[w] = "end_barrier"
    /\ pc' = [w \in Workers |-> IF pc[w] = "end_barrier" THEN "idle" ELSE pc[w]]
    /\ mclk' = Max({clk[w] : w \in {u \in Workers : pc[u] = "end_barrier"}})
    /\ b' = s
    /\ mpc' = "t1"
    /\ UNCHANGED <<cfgVars, probeVars, singleVars, loopVars, redVars, serVars,
                   critVars, clk, stampVars, regions, out, exitCode>>

\* the end of the region; return s;  const double b = parallel_work(Npar)
JoinParallelWork ==
    /\ mpc = "pw_join"
    /\ AllAt("end_barrier")
    /\ pc' = [w \in Workers |-> "idle"]
    /\ mclk' = Max({clk[w] : w \in Workers})
    /\ b' = s
    /\ mpc' = "t1"
    /\ UNCHANGED <<cfgVars, probeVars, singleVars, loopVars, redVars, serVars,
                   critVars, clk, stampVars, regions, out, exitCode>>

\* ------------------------------------------------------ specification
WorkerStep(w) ==
    \/ ReadIds(w)
    \/ HelloEnterCritical(w)
    \/ HelloPrint(w)
    \/ SingleArrive(w)
    \/ SingleBody(w)
    \/ LoopTest(w)
    \/ ParallelPhase(w)
    \/ EnterCritical(w)
    \/ SerialPhase(w)
    \/ ParallelWorkLoop(w)
    \/ AcquireReduction(w)
    \/ CombinePartial(w)

RuntimeStep ==
    \/ SingleBarrier
    \/ ForBarrier

MainStep ==
    \/ ForkRegion
    \/ JoinRegion
    \/ TakeT0
    \/ SerialStep
    \/ SerialReturn
    \/ ForkParallelWork
    \/ JoinParallelWork
    \/ TakeT1
    \/ Report
    \/ Return

Next ==
    \/ ForkRegion
    \/ JoinRegion
    \/ TakeT0
    \/ SerialStep
    \/ SerialReturn
    \/ ForkParallelWork
    \/ JoinParallelWork
    \/ TakeT1
    \/ Report
    \/ Return
    \/ SingleBarrier
    \/ ForBarrier
    \/ \E w \in Workers : ReadIds(w)
    \/ \E w \in Workers : HelloEnterCritical(w)
    \/ \E w \in Workers : HelloPrint(w)
    \/ \E w \in Workers : SingleArrive(w)
    \/ \E w \in Workers : SingleBody(w)
    \/ \E w \in Workers : LoopTest(w)
    \/ \E w \in Workers : ParallelPhase(w)
    \/ \E w \in Workers : EnterCritical(w)
    \/ \E w \in Workers : SerialPhase(w)
    \/ \E w \in Workers : ParallelWorkLoop(w)
    \/ \E w \in Workers : AcquireReduction(w)
    \/ \E w \in Workers : CombinePartial(w)

Spec == Init /\ [][Next]_vars

\* the scheduler runs every thread that can take a step: weak fairness of
\* main, of the runtime's barriers and of every worker
FairSpec ==
    /\ Spec
    /\ WF_vars(MainStep)
    /\ WF_vars(RuntimeStep)
    /\ \A w \in 0 .. (MaxT - 1) : WF_vars(w \in Workers /\ WorkerStep(w))


\* ============================================================== claims
Range(f) == {f[k] : k \in DOMAIN f}

\* the work-shared loop of the run has finished: every worker has left it
LoopFinished ==
    \/ /\ prog = "mutex"
       /\ \/ mpc \in {"t1", "report", "ret", "done"}
          \/ /\ mpc = "join"
             /\ \A w \in Workers : pc[w] \in {"for_barrier", "end_barrier"}
    \/ /\ prog = "amdahl"
       /\ \/ mpc \in {"t1", "report", "ret", "done"}
          \/ /\ mpc = "pw_join"
             /\ \A w \in Workers : pc[w] \in {"pw_reduce", "pw_add", "end_barrier"}

\* C1: in the contention run at most one worker is inside the critical
\* block in any reachable state, and while some worker is inside it no other
\* worker that waits at the acquisition gets past it in that step, however
\* long the holder stays there.
C1_MutualExclusion ==
    /\ [](prog = "mutex" =>
            Cardinality({w \in Workers : pc[w] = "mx_crit"}) <= 1)
    /\ [][\A w \in Workers :
            (/\ prog = "mutex"
             /\ pc[w] = "mx_wait"
             /\ \E u \in Workers \ {w} : pc[u] = "mx_crit")
            => pc'[w] = "mx_wait"]_vars

C1_Witness ==
    /\ prog = "mutex"
    /\ \E u \in Workers : \E w \in Workers \ {u} :
          pc[u] = "mx_crit" /\ pc[w] = "mx_wait"

\* C2: when the work-shared loop of parallel_work or of the contention run
\* has finished, every index 0..n-1 has been processed exactly once (so by
\* exactly one worker); before that no index has been processed twice.
C2_EachIndexOnce ==
    /\ \A k \in DOMAIN hits : Len(hits[k]) <= 1
    /\ LoopFinished =>
          /\ DOMAIN hits = 0 .. (LoopN - 1)
          /\ \A k \in 0 .. (LoopN - 1) : Len(hits[k]) = 1

\* a finished loop with more workers than indices: two indices went to two
\* different workers and some worker had an empty subrange
C2_Witness ==
    /\ LoopFinished
    /\ T > LoopN
    /\ \E j \in DOMAIN hits : \E k \in DOMAIN hits :
          Len(hits[j]) = 1 /\ Len(hits[k]) = 1 /\ hits[j][1] # hits[k][1]
    /\ \E w \in Workers : StaticLo(LoopN, T, w) = StaticHi(LoopN, T, w)

\* C3: in the probe run no identity is ever reported twice and none is >= T,
\* every report carries the thread count T, and when the parallel region has
\* finished the reported identities are exactly 0..T-1, one report each.
C3_ProbeIdentities ==
    prog = "warmup" =>
       /\ \A j \in DOMAIN out : \A k \in DOMAIN out :
             j # k => out[j][1] # out[k][1]
       /\ \A k \in DOMAIN out : out[k][1] \in 0 .. (T - 1) /\ out[k][2] = T
       /\ mpc \in {"ret", "done"} =>
             /\ Len(out) = T
             /\ {out[k][1] : k \in DOMAIN out} = 0 .. (T - 1)

\* the region has finished with at least two workers, and a worker other
\* than worker 0 reported first
C3_Witness ==
    /\ prog = "warmup"
    /\ mpc = "done"
    /\ T >= 2
    /\ out[1][1] # 0


\* parallel_work(n) run by one worker: the terms added in ascending order
RECURSIVE ParallelWork1(_)
ParallelWork1(n) == IF n <= 0 THEN 0 ELSE ParallelWork1(n - 1) + CosTerm(n - 1)

\* C4: whatever the thread count and the order in which the partial sums
\* are combined, the value parallel_work(Npar) returns to main is the value
\* it returns with one worker, the sum of the terms of 0..Npar-1.
C4_ReductionValue ==
    (prog = "amdahl" /\ mpc \in {"t1", "report", "ret", "done"})
       => b = ParallelWork1(Npar)

\* parallel_work has returned; a worker with a higher identity combined its
\* non-empty partial sum before a worker with a lower one
C4_Witness ==
    /\ prog = "amdahl"
    /\ mpc = "done"
    /\ Npar >= T
    /\ Len(combined) >= 2
    /\ combined[1] > combined[2]
    /\ b = ParallelWork1(Npar)

\* C5: in parallel_work a worker's loop step changes only that worker's
\* private sum; the shared s changes only by a worker that has finished its
\* whole subrange and holds the reduction lock, by exactly its private sum;
\* at most one worker is adding at a time; and main reads s only after every
\* worker's partial sum has been combined.
C5_ReductionDiscipline ==
    /\ [](prog = "amdahl" =>
            /\ Cardinality({w \in Workers : pc[w] = "pw_add"}) <= 1
            /\ \A w \in Workers :
                  (pc[w] \in {"pw_reduce", "pw_add"} \/ w \in Range(combined))
                     => i[w] = hi[w] /\ hi[w] = StaticHi(Npar, T, w))
    /\ [][\A w \in Workers :
            priv'[w] # priv[w] =>
               /\ pc[w] = "pw_loop"
               /\ s' = s
               /\ \A u \in Workers \ {w} : priv'[u] = priv[u]]_vars
    /\ [][s' # s =>
            \E w \in Workers :
               /\ pc[w] = "pw_add"
               /\ redLock = {w}
               /\ i[w] = hi[w]
               /\ w \notin Range(combined)
               /\ s' = s + priv[w]]_vars
    /\ [][(mpc = "pw_join" /\ mpc' # "pw_join") =>
            /\ Range(combined) = Workers
            /\ Len(combined) = T
            /\ b' = s]_vars

\* one worker is adding its partial sum, a second one waits for the lock
\* and a third is still producing its own
C5_Witness ==
    /\ prog = "amdahl"
    /\ \E u \in Workers : \E v \in Workers : \E w \in Workers :
          /\ pc[u] = "pw_add"
          /\ pc[v] = "pw_reduce"
          /\ pc[w] = "pw_loop" /\ i[w] < hi[w]


Timed == prog \in {"amdahl", "mutex"}

AllIdle == \A w \in Workers : pc[w] = "idle"

\* some worker is inside the work-shared loop of the run
InWorkLoop ==
    \E w \in Workers :
       pc[w] \in {"mx_loop", "mx_par", "mx_wait", "mx_crit", "pw_loop"}

\* C6 as stated: in each timed run the timer is started before any parallel
\* region of the run begins, and no worker is executing when the stop time
\* stamp is taken.
C6_Original ==
    Timed =>
       /\ regions > 0 => t0 >= 0
       /\ t1 >= 0 => AllIdle

\* C6 as amended: in each timed run both time stamps are taken while no
\* worker is executing; the timer is started before the work-shared region
\* begins (no index is processed and no worker is in the loop before t0) and
\* stopped only after every worker has left the loop and rejoined, at a time
\* no earlier than any worker's clock.  The contention run opens no region
\* before t0; the Amdahl run opens and joins exactly one region, which only
\* reads the thread count, before t0.
C6_TimerAroundWorkRegion ==
    Timed =>
       /\ mpc \in {"t0", "t1"} => AllIdle
       /\ InWorkLoop => (t0 >= 0 /\ t1 < 0)
       /\ (\E k \in DOMAIN hits : hits[k] # << >>) => t0 >= 0
       /\ prog = "mutex" => (regions > 0 => t0 >= 0)
       /\ prog = "amdahl" =>
             /\ regions > 1 => t0 >= 0
             /\ t0 >= 0 => regions >= 1
             /\ (regions = 1 /\ ~AllIdle) => (t0 < 0 /\ ~InWorkLoop)
       /\ t1 >= 0 =>
             /\ AllIdle
             /\ LoopFinished
             /\ \A w \in Workers : clk[w] <= t1

\* the Amdahl run has stopped its timer after parallel_work ran on at least
\* two workers
C6_Witness ==
    /\ prog = "amdahl"
    /\ T >= 2
    /\ Npar >= T
    /\ regions = 2
    /\ t0 >= 0
    /\ t1 > t0

\* the state of the run: Running while workers of a region are active,
\* Reported when main has returned
RunState ==
    IF ~AllIdle THEN "Running"
    ELSE IF regions = 0 THEN "NotStarted"
    ELSE IF mpc = "done" THEN "Reported"
    ELSE "Joined"

\* C7 as stated: every run enters exactly one parallel region and never
\* returns to Running once all workers have joined.
C7_Original ==
    /\ [](regions <= 1)
    /\ [](mpc = "done" => regions = 1)
    /\ [][RunState = "Joined" => RunState' # "Running"]_vars

\* C7 as amended: the probe run and the contention run enter exactly one
\* parallel region and go NotStarted -> Running -> Joined -> Reported; the
\* Amdahl run enters exactly two (the region that reads the thread count,
\* then the region of parallel_work) and returns from Joined to Running
\* exactly once, after the first join; no run returns to Running after its
\* last join, and main returns only in state Reported.
C7_RunStates ==
    /\ [](regions <= (IF prog = "amdahl" THEN 2 ELSE 1))
    /\ [](mpc = "done" =>
            /\ RunState = "Reported"
            /\ regions = (IF prog = "amdahl" THEN 2 ELSE 1))
    /\ [][RunState' # RunState =>
            \/ RunState = "NotStarted" /\ RunState' = "Running"
            \/ RunState = "Running" /\ RunState' = "Joined"
            \/ RunState = "Joined" /\ RunState' = "Reported"
            \/ /\ prog = "amdahl"
               /\ regions = 1
               /\ RunState = "Joined"
               /\ RunState' = "Running"]_vars

\* the Amdahl run is Running for the second time
C7_Witness ==
    /\ prog = "amdahl"
    /\ regions = 2
    /\ RunState = "Running"

\* C8: in the contention run the elapsed time between the two time stamps
\* is never less than iters * serial_ms.
C8_ContentionFloor ==
    (prog = "mutex" /\ t1 >= 0) => sec >= iters * serial_ms

\* a contention run with several workers whose parallel phases overlapped:
\* it took less than the sum of all phases
C8_Witness ==
    /\ prog = "mutex"
    /\ t1 >= 0
    /\ T >= 2
    /\ iters >= 2
    /\ sec < iters * (parallel_ms + serial_ms)

\* number of indices worker w has processed
Done(w) == Cardinality({k \in DOMAIN hits : w \in Range(hits[k])})

\* C9: in the Amdahl run wall(T) >= C_s + C_p / T with C_s = Nserial and
\* C_p = Npar (stated without division: T * wall >= T * Nserial + Npar);
\* while serial_work runs no worker is active and no index of parallel_work
\* has been processed; and when parallel_work has finished every worker has
\* processed its whole subrange and some worker at least Npar / T indices.
C9_AmdahlBound ==
    prog = "amdahl" =>
       /\ mpc = "serial" =>
             /\ AllIdle
             /\ \A k \in DOMAIN hits : hits[k] = << >>
             /\ mclk = t0 + si
       /\ LoopFinished =>
             /\ \A w \in Workers :
                   Done(w) = StaticHi(Npar, T, w) - StaticLo(Npar, T, w)
             /\ \E w \in Workers : T * Done(w) >= Npar
       /\ t1 >= 0 => T * sec >= T * Nserial + Npar

\* an Amdahl run with a non-empty serial part and a parallel part that does
\* not divide evenly among at least two workers
C9_Witness ==
    /\ prog = "amdahl"
    /\ t1 >= 0
    /\ T >= 2
    /\ Nserial >= 1
    /\ Npar % T # 0
    /\ sec < Nserial + Npar

\* the run is over: main has returned 0, every worker has left the region
\* with its subrange finished, and no lock is held
Terminated ==
    /\ mpc = "done"
    /\ exitCode = 0
    /\ AllIdle
    /\ slot = {}
    /\ redLock = {}
    /\ \A w \in Workers : i[w] = hi[w]
    /\ \A k \in 0 .. (LoopN - 1) : Len(hits[k]) = 1

\* C10: under weakly fair scheduling every run terminates: a state in which
\* main has not returned always has an enabled step (no deadlock), and the
\* run eventually reaches, and stays in, the state where main has returned
\* 0, all workers have finished their work and left the region, and the slot
\* is free.
C10_Termination ==
    /\ [](mpc # "done" => ENABLED Next)
    /\ <>[]Terminated

\* a contention run with contention for the slot has terminated
C10_Witness ==
    /\ Terminated
    /\ prog = "mutex"
    /\ T >= 2
    /\ acquired >= T


\* serial_work has returned to main
SerialDone == prog = "amdahl" /\ mpc \notin {"fork", "join", "t0", "serial"}

\* C11: serial_work adds its terms in strict ascending index order 0, 1, ...,
\* one index per step, n of them in all, on the initial thread alone: every
\* step of it is taken by main while no worker of any region is active.
C11_SerialOrder ==
    /\ [](prog = "amdahl" =>
            /\ Len(serLog) = si
            /\ \A k \in DOMAIN serLog : serLog[k] = k - 1
            /\ SerialDone => Len(serLog) = Nserial)
    /\ [][serLog' # serLog =>
            /\ mpc = "serial" /\ mpc' = "serial"
            /\ AllIdle /\ AllIdle'
            /\ pc' = pc
            /\ serLog' = Append(serLog, Len(serLog))]_vars

\* serial_work has run at least two steps in a run with several threads
C11_Witness ==
    /\ prog = "amdahl"
    /\ T >= 2
    /\ SerialDone
    /\ Len(serLog) >= 2

\* serial_work(n): the terms of 0..n-1 added in ascending order; a function
\* of n alone
RECURSIVE SerialWork(_)
SerialWork(n) == IF n <= 0 THEN 0 ELSE SerialWork(n - 1) + SinTerm(n - 1)

\* C12: the value serial_work(Nserial) returns to main is a function of
\* Nserial alone: in every run, whatever its thread count, it is
\* SerialWork(Nserial), so two runs with the same n and thread counts T1, T2
\* return the same value.
C12_SerialDeterminism ==
    /\ (prog = "amdahl" /\ mpc = "serial") => ss = SerialWork(si)
    /\ SerialDone => a = SerialWork(Nserial)

\* serial_work has returned a non-zero value in a run with several threads
C12_Witness ==
    /\ SerialDone
    /\ T >= 2
    /\ Nserial >= 2
    /\ a = SerialWork(Nserial)
    /\ a # 0


\* C13: in the probe run at most one worker is writing its report (is
\* inside the critical block around printf) in any reachable state, and the
\* output grows only by one whole report of the worker that is inside.
C13_ReportExclusive ==
    /\ [](prog = "warmup" =>
            /\ Cardinality({w \in Workers : pc[w] = "hello_print"}) <= 1
            /\ slot = {w \in Workers : pc[w] = "hello_print"})
    /\ [][(prog = "warmup" /\ out' # out) =>
            \E w \in Workers :
               /\ pc[w] = "hello_print"
               /\ slot = {w}
               /\ pc'[w] = "end_barrier"
               /\ out' = Append(out, <<tid[w], nt_local[w]>>)]_vars

\* one worker is writing its report while another waits to write its own
C13_Witness ==
    /\ prog = "warmup"
    /\ \E u \in Workers : \E w \in Workers \ {u} :
          pc[u] = "hello_print" /\ pc[w] = "hello_wait"


\* the indices worker w has processed
Chunk(w) == {k \in DOMAIN hits : w \in Range(hits[k])}

\* C14: the iteration space of the work-shared loops is divided statically:
\* the indices a worker has processed are always contiguous; an index is
\* only ever processed by the worker that the partition of (n, T) assigns it
\* to, whatever the interleaving; while the loop runs no worker's bound
\* changes and its loop variable only steps by one; and when the loop has
\* finished each worker's indices are exactly its subrange (possibly empty)
\* and the sizes of any two subranges differ by at most one.
C14_StaticPartition ==
    /\ [](\A w \in Workers :
            /\ \A j \in Chunk(w) : \A l \in Chunk(w) :
                  \A k \in j .. l : k \in Chunk(w)
            /\ \A k \in Chunk(w) :
                  StaticLo(LoopN, T, w) <= k /\ k < StaticHi(LoopN, T, w))
    /\ [](LoopFinished =>
            /\ \A w \in Workers :
                  Chunk(w) = StaticLo(LoopN, T, w) .. (StaticHi(LoopN, T, w) - 1)
            /\ \A u \in Workers : \A w \in Workers : Done(u) - Done(w) <= 1)
    /\ [][(InWorkLoop /\ InWorkLoop') =>
            /\ hi' = hi
            /\ \A w \in Workers : i'[w] \in {i[w], i[w] + 1}]_vars

\* a finished loop whose iteration count is not a multiple of the thread
\* count: three workers with subranges of sizes 2, 1 and 1
C14_Witness ==
    /\ LoopFinished
    /\ T >= 3
    /\ \E u \in Workers : \E v \in Workers : \E w \in Workers :
          Done(u) = 2 /\ Done(v) = 1 /\ Done(w) = 1


\* number of work units completed so far
UnitsDone == Cardinality({k \in DOMAIN hits : hits[k] # << >>})

\* C15: in the contention run every work unit goes uncontended phase,
\* acquire, contended phase, release, in that order: a worker's position
\* moves only loop test -> uncontended phase -> acquisition -> contended
\* phase -> loop test (or loop test -> barrier when its subrange is done);
\* it acquires only while not holding the slot; leaving the contended phase
\* releases the slot and completes exactly the current unit; a worker holds
\* the slot exactly while it is in the contended phase, so not when it starts
\* a unit or waits at a barrier; every acquisition belongs to one unit, and
\* over the whole run the slot is acquired exactly iters times.
C15_UnitPhases ==
    /\ [](prog = "mutex" =>
            /\ slot = {w \in Workers : pc[w] = "mx_crit"}
            /\ acquired = UnitsDone + Cardinality(slot)
            /\ \A w \in Workers :
                  pc[w] \in {"mx_loop", "mx_par", "mx_wait", "mx_crit"} =>
                     i[w] = StaticLo(iters, T, w) + Done(w)
            /\ LoopFinished => acquired = iters)
    /\ [][prog = "mutex" =>
            \A w \in Workers :
               /\ (pc[w] = "mx_loop" /\ pc'[w] # pc[w]) =>
                     /\ pc'[w] = (IF i[w] < hi[w] THEN "mx_par" ELSE "for_barrier")
                     /\ w \notin slot
                     /\ UNCHANGED <<slot, acquired, hits, i>>
               /\ (pc[w] = "mx_par" /\ pc'[w] # pc[w]) =>
                     /\ pc'[w] = "mx_wait"
                     /\ UNCHANGED <<slot, acquired, hits, i>>
               /\ (pc[w] = "mx_wait" /\ pc'[w] # pc[w]) =>
                     /\ pc'[w] = "mx_crit"
                     /\ w \notin slot
                     /\ slot' = {w}
                     /\ acquired' = acquired + 1
                     /\ UNCHANGED <<hits, i>>
               /\ (pc[w] = "mx_crit" /\ pc'[w] # pc[w]) =>
                     /\ pc'[w] = "mx_loop"
                     /\ slot = {w}
                     /\ slot' = {}
                     /\ acquired' = acquired
                     /\ i'[w] = i[w] + 1
                     /\ hits' = [hits EXCEPT ![i[w]] = <<w>>]
               /\ (pc[w] = "for_barrier" /\ pc'[w] # pc[w]) =>
                     /\ w \notin slot
                     /\ i[w] = hi[w]]_vars

\* a contention run on several workers, some of them with more than one
\* unit, has finished its loop
C15_Witness ==
    /\ prog = "mutex"
    /\ LoopFinished
    /\ T >= 2
    /\ iters > T
    /\ acquired = iters


\* C16: in the contention run the uncontended phase needs no
\* synchronization: a worker about to start it (at the loop test with units
\* left) or in it can take its step in every reachable state, whoever
\* occupies the slot.  (That two workers are in the phase at the same time
\* is the reachable state C16_Witness.)
C16_UncontendedPhaseFree ==
    prog = "mutex" =>
       \A w \in Workers :
          /\ (pc[w] = "mx_loop" /\ i[w] < hi[w]) => ENABLED LoopTest(w)
          /\ pc[w] = "mx_par" => ENABLED ParallelPhase(w)

\* two workers are in the uncontended phase at the same time while a third
\* occupies the slot
C16_Witness ==
    /\ prog = "mutex"
    /\ slot # {}
    /\ \E u \in Workers : \E w \in Workers \ {u} :
          pc[u] = "mx_par" /\ pc[w] = "mx_par"


\* C17: in the Amdahl run and the contention run nt is written at most
\* once, by one worker of the region (never two workers in the block at the
\* same time); the write stores T; nt does not change afterwards; once the
\* workers have passed the barrier of the single construct nt has been
\* written, so in the contention run no worker is in the work-shared loop
\* before that.
C17_ThreadCountOnce ==
    /\ [](Timed =>
            /\ Len(ntWrites) <= 1
            /\ Cardinality({w \in Workers : pc[w] = "single_body"}) <= 1
            /\ nt = (IF ntWrites = << >> THEN 0 ELSE T)
            /\ (regions >= 1 /\ \A w \in Workers :
                   pc[w] \notin {"single", "single_body", "single_barrier"})
                  => (Len(ntWrites) = 1 /\ ntWrites[1] \in Workers)
            /\ InWorkLoop => (Len(ntWrites) = 1 /\ nt = T))
    /\ [][(nt' # nt \/ ntWrites' # ntWrites) =>
            /\ ntWrites = << >>
            /\ \E w \in Workers :
                  /\ pc[w] = "single_body"
                  /\ ntWrites' = <<w>>
            /\ nt' = T]_vars

\* the contention run is in its loop on several workers and nt was written
\* by a worker other than worker 0
C17_Witness ==
    /\ prog = "mutex"
    /\ InWorkLoop
    /\ T >= 2
    /\ nt = T
    /\ ntWrites # << >>
    /\ ntWrites[1] # 0


\* C18 as stated, read in its most favourable way: for T >= 2, in every
\* execution in which the slot was never left idle while a worker was
\* waiting for it, the elapsed time is at most parallel_ms + iters *
\* serial_ms.
C18_Original ==
    (prog = "mutex" /\ T >= 2 /\ t1 >= 0 /\ ~idleWait)
       => sec <= parallel_ms + iters * serial_ms

\* C18 as amended: in the contention run the elapsed time is at most iters *
\* (parallel_ms + serial_ms) for every T; once T >= iters (every worker has
\* at most one unit) the slot is never left idle while a worker waits and,
\* for iters >= 1, the elapsed time is exactly parallel_ms + iters *
\* serial_ms.  For 2 <= T < iters that value is not an upper bound.
C18_ContentionCeiling ==
    prog = "mutex" =>
       /\ T >= iters => ~idleWait
       /\ t1 >= 0 =>
             /\ sec <= iters * (parallel_ms + serial_ms)
             /\ (T >= iters /\ iters >= 1) =>
                   sec = parallel_ms + iters * serial_ms

\* a finished contention run with as many workers as units, at least two
C18_Witness ==
    /\ prog = "mutex"
    /\ t1 >= 0
    /\ iters >= 2
    /\ T >= iters
    /\ sec = parallel_ms + iters * serial_ms


====
